---- MODULE Spec2Model ----
(***************************************************************************)
(* A model of the Card / Deck classes of CardDProject/main.py: a deck of   *)
(* cards held in one underlying sequence with a draw cursor, the           *)
(* fair_deck duplicate guard wrapped around add_card and the cards         *)
(* property, and the comparison operators of Card that max and min use.    *)
(***************************************************************************)
EXTENDS Integers, Sequences, FiniteSets, TLC

(* ------------------------------ bounds --------------------------------- *)

\* Number of members of CardRank kept in the model (13 in the program).
NumRanks == 2

\* Number of members of CardSuit kept in the model (4 in the program).
NumSuits == 2

\* Number of cards add_card may append to the underlying sequence.
MaxAdds == 1

\* Number of draw calls made on an exhausted deck before the next shuffle.
MaxEmptyDraws == 2

\* Greatest number of cards passed to cards_stats.
MaxStatsCards == 2

\* Greatest number of keyword arguments passed to cards_stats.
MaxKwargs == 2

\* Greatest count given with a keyword argument of cards_stats.
MaxCount == 3

(* ------------------------ CardRank and CardSuit ------------------------ *)

\* CardRank.TWO, the least rank value.
TWO == 2

\* CardSuit.CLUBS, the least suit value.
CLUBS == 1

CardRank == TWO .. (TWO + NumRanks - 1)

CardSuit == CLUBS .. (CLUBS + NumSuits - 1)

\* CardRank.ACE, the greatest rank value.
ACE == 14

\* CardSuit.SPADES, the greatest suit value.
SPADES == 4

\* Every card the program can construct: all 13 ranks in all 4 suits.
AllCards == [rank : TWO .. ACE, suit : CLUBS .. SPADES]

(* -------------------------------- Card --------------------------------- *)

\* Card.__init__: every Card holds a member of CardRank and of CardSuit.
Card == [rank : CardRank, suit : CardSuit]

\* A value that is no Card (the string main() passes where a Card is due).
NotACard == [rank |-> 0, suit |-> 0]

\* Python's None, as the value of a call that returns no card.
None == [rank |-> -1, suit |-> -1]

__eq__(self, other) == self.rank = other.rank /\ self.suit = other.suit

__lt__(self, other) ==
    IF self.rank < other.rank THEN TRUE
    ELSE IF self.rank > other.rank THEN FALSE
    ELSE self.suit < other.suit

\* __gt__ as it would be if the tie on rank were settled with >= on suits.
__gt___suit_ge(self, other) ==
    IF self.rank > other.rank THEN TRUE
    ELSE IF self.rank < other.rank THEN FALSE
    ELSE self.suit >= other.suit

__gt__(self, other) ==
    IF self.rank > other.rank THEN TRUE
    ELSE IF self.rank < other.rank THEN FALSE
    ELSE self.suit > other.suit

(* --------------------------- Python built-ins -------------------------- *)

\* seq[start:] with a 0-based start, as Python slices a list.
SliceFrom(seq, start) == SubSeq(seq, start + 1, Len(seq))

\* card in seq: the list is walked and each element compared with ==.
Contains(seq, card) == \E i \in 1 .. Len(seq) : __eq__(card, seq[i])

\* max(seq) of a non-empty list: keeps the first element that no later
\* element is greater than (each candidate is compared with >).
RECURSIVE MaxFrom(_, _, _)
MaxFrom(seq, i, best) ==
    IF i > Len(seq) THEN best
    ELSE MaxFrom(seq, i + 1, IF __gt__(seq[i], best) THEN seq[i] ELSE best)

builtin_max(seq) == MaxFrom(seq, 2, seq[1])

\* min(seq) of a non-empty list (each candidate is compared with <).
RECURSIVE MinFrom(_, _, _)
MinFrom(seq, i, best) ==
    IF i > Len(seq) THEN best
    ELSE MinFrom(seq, i + 1, IF __lt__(seq[i], best) THEN seq[i] ELSE best)

builtin_min(seq) == MinFrom(seq, 2, seq[1])

(* ------------------------------ fair_deck ------------------------------ *)

\* The scan as it would be if the cards met were never put in seen_cards.
RECURSIVE ScanFrom_never_adds(_, _, _)
ScanFrom_never_adds(seq, i, seen_cards) ==
    IF i > Len(seq) THEN 0
    ELSE IF \E c \in seen_cards : __eq__(seq[i], c) THEN i
    ELSE ScanFrom_never_adds(seq, i + 1, seen_cards)

\* The scan of fair_deck's wrapper: the 1-based position of the first card
\* that is already in seen_cards, or 0 when the scan ends without a raise.
RECURSIVE ScanFrom(_, _, _)
ScanFrom(seq, i, seen_cards) ==
    IF i > Len(seq) THEN 0
    ELSE IF \E c \in seen_cards : __eq__(seq[i], c) THEN i
    ELSE ScanFrom(seq, i + 1, seen_cards \cup {seq[i]})

\* cards_to_check as it would be if the two tests came in the other order:
\* a result that is a list of cards is scanned, else the _cards of a Deck.
cards_to_check_result_first(self_is_deck, self_cards, result) ==
    IF \A i \in 1 .. Len(result) : result[i] \in Card THEN result
    ELSE IF self_is_deck THEN self_cards
    ELSE <<>>

\* What the wrapper scans after the wrapped method returned `result`: the
\* _cards of self when self is a Deck, else the result when it is a list of
\* cards, else nothing.
cards_to_check(self_is_deck, self_cards, result) ==
    IF self_is_deck THEN self_cards
    ELSE IF \A i \in 1 .. Len(result) : result[i] \in Card THEN result
    ELSE <<>>

\* The wrapper's scan when the wrapped method is a method of a Deck.
fair_deck(self_cards, result) ==
    ScanFrom(cards_to_check(TRUE, self_cards, result), 1, {})

(* -------------------------------- state -------------------------------- *)

VARIABLES
    _cards,        \* Deck._cards, the underlying sequence
    _draw_index,   \* Deck._draw_index, the cursor (0-based)
    op,            \* the last call made on the deck
    arg,           \* its argument
    ret,           \* what it returned or raised
    ndraws         \* draw calls since construction or the last shuffle

vars == <<_cards, _draw_index, op, arg, ret, ndraws>>

\* The outcome of a call: the exception raised ("none" when it returned),
\* the place that raised it, and the returned card, list or number.
Returned(card, list, n) ==
    [raised |-> "none", at |-> "none", card |-> card, list |-> list, int |-> n]

Raised(exc, at, card) ==
    [raised |-> exc, at |-> at, card |-> card, list |-> <<>>, int |-> 0]

NoArg == [card |-> None, index |-> 0, isint |-> TRUE, shuffle |-> FALSE]

CardArg(c) == [card |-> c, index |-> 0, isint |-> TRUE, shuffle |-> FALSE]

IndexArg(i, isint) == [card |-> None, index |-> i, isint |-> isint, shuffle |-> FALSE]

ShuffleArg(b) == [card |-> None, index |-> 0, isint |-> TRUE, shuffle |-> b]

\* The size of a complete deck.
NumCards == NumSuits * NumRanks

\* The deck as it would be if the inner loop ran once, after the loop over
\* the suits: the ranks of the last suit only.
CanonicalDeck_last_suit ==
    [k \in 1 .. NumRanks |->
        [rank |-> TWO + (k - 1), suit |-> CLUBS + NumSuits - 1]]

\* The cards the nested loops of Deck.__init__ append: suits outermost.
CanonicalDeck ==
    [k \in 1 .. NumCards |->
        [rank |-> TWO + ((k - 1) % NumRanks),
         suit |-> CLUBS + ((k - 1) \div NumRanks)]]

\* random.shuffle(seq): any permutation of the list.
Shuffles(seq) ==
    {[i \in 1 .. Len(seq) |-> seq[p[i]]] : p \in Permutations(1 .. Len(seq))}

\* Deck.__init__(shuffle)
Init ==
    /\ \E shuffle \in BOOLEAN :
          /\ _cards \in (IF shuffle THEN Shuffles(CanonicalDeck) ELSE {CanonicalDeck})
          /\ arg = ShuffleArg(shuffle)
    /\ _draw_index = 0
    /\ op = "__init__"
    /\ ret = Returned(None, <<>>, 0)
    /\ ndraws = 0

\* Deck.__len__
__len__ == Len(_cards) - _draw_index

\* shuffle as it would be if it permuted the remaining cards only and left
\* the cursor where it was.
shuffle_remaining_only ==
    /\ \E rest \in Shuffles(SliceFrom(_cards, _draw_index)) :
          _cards' = SubSeq(_cards, 1, _draw_index) \o rest
    /\ UNCHANGED _draw_index
    /\ op' = "shuffle"
    /\ arg' = NoArg
    /\ ret' = Returned(None, <<>>, 0)
    /\ ndraws' = 0

\* Deck.shuffle
shuffle ==
    /\ _cards' \in Shuffles(_cards)
    /\ _draw_index' = 0
    /\ op' = "shuffle"
    /\ arg' = NoArg
    /\ ret' = Returned(None, <<>>, 0)
    /\ ndraws' = 0

\* draw as it would be if it popped the card out of the list instead of
\* moving the cursor.
draw_pops ==
    /\ _draw_index < Len(_cards) \/ ndraws < _draw_index + MaxEmptyDraws
    /\ IF _draw_index >= Len(_cards)
       THEN /\ ret' = Returned(None, <<>>, 0)
            /\ UNCHANGED _cards
       ELSE /\ ret' = Returned(_cards[_draw_index + 1], <<>>, 0)
            /\ _cards' = SubSeq(_cards, 1, _draw_index)
                            \o SubSeq(_cards, _draw_index + 2, Len(_cards))
    /\ op' = "draw"
    /\ arg' = NoArg
    /\ ndraws' = ndraws + 1
    /\ UNCHANGED _draw_index

\* draw as it would be without the emptiness test: the cursor moves on
\* even when no card is left.
draw_always_advances ==
    /\ _draw_index < Len(_cards) \/ ndraws < _draw_index + MaxEmptyDraws
    /\ ret' = Returned(IF _draw_index >= Len(_cards) THEN None
                       ELSE _cards[_draw_index + 1], <<>>, 0)
    /\ _draw_index' = _draw_index + 1
    /\ op' = "draw"
    /\ arg' = NoArg
    /\ ndraws' = ndraws + 1
    /\ UNCHANGED _cards

\* draw as it would be if the emptiness test were off by one, so that the
\* last card is never handed out.
draw_stops_early ==
    /\ _draw_index < Len(_cards) \/ ndraws < _draw_index + MaxEmptyDraws
    /\ IF _draw_index >= Len(_cards) - 1
       THEN /\ ret' = Returned(None, <<>>, 0)
            /\ UNCHANGED _draw_index
       ELSE /\ ret' = Returned(_cards[_draw_index + 1], <<>>, 0)
            /\ _draw_index' = _draw_index + 1
    /\ op' = "draw"
    /\ arg' = NoArg
    /\ ndraws' = ndraws + 1
    /\ UNCHANGED _cards

\* Deck.draw
draw ==
    /\ _draw_index < Len(_cards) \/ ndraws < _draw_index + MaxEmptyDraws
    /\ IF _draw_index >= Len(_cards)
       THEN /\ ret' = Returned(None, <<>>, 0)
            /\ UNCHANGED _draw_index
       ELSE /\ ret' = Returned(_cards[_draw_index + 1], <<>>, 0)
            /\ _draw_index' = _draw_index + 1
    /\ op' = "draw"
    /\ arg' = NoArg
    /\ ndraws' = ndraws + 1
    /\ UNCHANGED _cards

\* add_card as it would be if a card that is already remaining were
\* skipped in silence instead of being refused.
add_card_body_skips(self_cards, idx, card) ==
    IF card \notin Card
    THEN [cards |-> self_cards, ret |-> Raised("TypeError", "add_card", None)]
    ELSE IF Contains(SliceFrom(self_cards, idx), card)
    THEN [cards |-> self_cards, ret |-> Returned(None, <<>>, 0)]
    ELSE [cards |-> Append(self_cards, card), ret |-> Returned(None, <<>>, 0)]

\* add_card as it would be if the card were inserted at the cursor, to be
\* drawn next, instead of appended.
add_card_body_inserts_at_cursor(self_cards, idx, card) ==
    IF card \notin Card
    THEN [cards |-> self_cards, ret |-> Raised("TypeError", "add_card", None)]
    ELSE IF Contains(SliceFrom(self_cards, idx), card)
    THEN [cards |-> self_cards, ret |-> Raised("DeckCheatingError", "add_card", card)]
    ELSE [cards |-> SubSeq(self_cards, 1, idx) \o <<card>> \o SliceFrom(self_cards, idx),
          ret |-> Returned(None, <<>>, 0)]

\* add_card as it would be if the append came before the membership test.
add_card_body_appends_first(self_cards, idx, card) ==
    IF card \notin Card
    THEN [cards |-> self_cards, ret |-> Raised("TypeError", "add_card", None)]
    ELSE [cards |-> Append(self_cards, card),
          ret |-> Raised("DeckCheatingError", "add_card", card)]

\* The body of Deck.add_card, before the decorator looks at the deck:
\* the list it leaves in _cards and what it returned or raised.
add_card_body(self_cards, idx, card) ==
    IF card \notin Card
    THEN [cards |-> self_cards, ret |-> Raised("TypeError", "add_card", None)]
    ELSE IF Contains(SliceFrom(self_cards, idx), card)
    THEN [cards |-> self_cards, ret |-> Raised("DeckCheatingError", "add_card", card)]
    ELSE [cards |-> Append(self_cards, card), ret |-> Returned(None, <<>>, 0)]

\* fair_deck's wrapper around a method: the method runs first; if it
\* returned, the scan runs and raises on the first duplicate it meets.
wrapper(self_cards, r) ==
    IF r.raised # "none" THEN r
    ELSE LET dup == fair_deck(self_cards, r.list) IN
         IF dup # 0
         THEN Raised("DeckCheatingError", "fair_deck",
                     cards_to_check(TRUE, self_cards, r.list)[dup])
         ELSE r

\* Deck.add_card, decorated with fair_deck
add_card ==
    \E card \in Card \cup {NotACard} :
        LET body == add_card_body(_cards, _draw_index, card) IN
        /\ Len(body.cards) > Len(_cards) => Len(_cards) < NumCards + MaxAdds
        /\ _cards' = body.cards
        /\ ret' = wrapper(body.cards, body.ret)
        /\ op' = "add_card"
        /\ arg' = CardArg(card)
        /\ UNCHANGED <<_draw_index, ndraws>>

\* Deck.cards, a property decorated with fair_deck
cards ==
    /\ ret' = wrapper(_cards, Returned(None, SliceFrom(_cards, _draw_index), 0))
    /\ op' = "cards"
    /\ arg' = NoArg
    /\ UNCHANGED <<_cards, _draw_index, ndraws>>

\* len(deck)
len ==
    /\ ret' = Returned(None, <<>>, __len__)
    /\ op' = "__len__"
    /\ arg' = NoArg
    /\ UNCHANGED <<_cards, _draw_index, ndraws>>

\* __getitem__ as it would be without the test for a negative index: the
\* list is then indexed as Python does, from the end when below zero.
getitem_result_no_lower(self_cards, idx, index, isint) ==
    IF ~isint THEN Raised("TypeError", "__getitem__", None)
    ELSE LET actual_index == idx + index IN
         IF index < Len(self_cards) - idx
         THEN Returned(self_cards[IF actual_index < 0
                                  THEN Len(self_cards) + actual_index + 1
                                  ELSE actual_index + 1], <<>>, 0)
         ELSE Raised("IndexError", "__getitem__", None)

\* What Deck.__getitem__ returns or raises for an index.
getitem_result(self_cards, idx, index, isint) ==
    IF ~isint THEN Raised("TypeError", "__getitem__", None)
    ELSE LET actual_index == idx + index IN
         IF 0 <= index /\ index < Len(self_cards) - idx
         THEN Returned(self_cards[actual_index + 1], <<>>, 0)
         ELSE Raised("IndexError", "__getitem__", None)

\* The indices tried: every integer from below 0 to past the end of the
\* underlying sequence, and one value that is no integer.
Indices ==
    {IndexArg(i, TRUE) : i \in -2 .. (Len(_cards) + 1)} \cup {IndexArg(0, FALSE)}

\* Deck.__getitem__
__getitem__ ==
    \E index \in Indices :
        /\ ret' = getitem_result(_cards, _draw_index, index.index, index.isint)
        /\ op' = "__getitem__"
        /\ arg' = index
        /\ UNCHANGED <<_cards, _draw_index, ndraws>>

\* Deck.__iter__: an iterator over a copy of the remaining cards.
__iter__ ==
    /\ ret' = Returned(None, SliceFrom(_cards, _draw_index), 0)
    /\ op' = "__iter__"
    /\ arg' = NoArg
    /\ UNCHANGED <<_cards, _draw_index, ndraws>>

\* max as it would be if it looked at the whole underlying sequence.
max_result_whole(self_cards, idx) ==
    IF SliceFrom(self_cards, idx) = <<>>
    THEN Raised("ValueError", "max", None)
    ELSE Returned(builtin_max(self_cards), <<>>, 0)

\* What Deck.max returns or raises.
max_result(self_cards, idx) ==
    IF SliceFrom(self_cards, idx) = <<>>
    THEN Raised("ValueError", "max", None)
    ELSE Returned(builtin_max(SliceFrom(self_cards, idx)), <<>>, 0)

\* What Deck.min returns or raises.
min_result(self_cards, idx) ==
    IF SliceFrom(self_cards, idx) = <<>>
    THEN Raised("ValueError", "min", None)
    ELSE Returned(builtin_min(SliceFrom(self_cards, idx)), <<>>, 0)

\* Deck.max
max ==
    /\ ret' = max_result(_cards, _draw_index)
    /\ op' = "max"
    /\ arg' = NoArg
    /\ UNCHANGED <<_cards, _draw_index, ndraws>>

\* Deck.min
min ==
    /\ ret' = min_result(_cards, _draw_index)
    /\ op' = "min"
    /\ arg' = NoArg
    /\ UNCHANGED <<_cards, _draw_index, ndraws>>

Next ==
    \/ shuffle
    \/ draw
    \/ add_card
    \/ cards
    \/ len
    \/ __getitem__
    \/ __iter__
    \/ max
    \/ min

Spec == Init /\ [][Next]_vars

\* A deck on which only draw is called.
SpecDraw == Init /\ [][draw]_vars

(* ------------------------- comparing two cards ------------------------- *)

\* In the specifications of the functions that take no deck, op, arg and
\* ret record the call made and its outcome, and there is no deck.
NoDeck ==
    /\ _cards = <<>>
    /\ _draw_index = 0
    /\ ndraws = 0

\* The outcome of a comparison: the exception raised or the boolean.
Compared(b) == [raised |-> "none", bool |-> b]

CompareRaised(exc) == [raised |-> exc, bool |-> FALSE]

\* Card.__eq__, with its test of the type of the other operand.
eq_result(self, other) ==
    IF other \notin AllCards THEN CompareRaised("TypeError")
    ELSE Compared(__eq__(self, other))

\* Card.__lt__, with its test of the type of the other operand.
lt_result(self, other) ==
    IF other \notin AllCards THEN CompareRaised("TypeError")
    ELSE Compared(__lt__(self, other))

\* Card.__gt__, with its test of the type of the other operand.
gt_result(self, other) ==
    IF other \notin AllCards THEN CompareRaised("TypeError")
    ELSE Compared(__gt__(self, other))

\* Two operands: a card, and a card or a value that is no card.
InitCompare ==
    /\ NoDeck
    /\ op = "Card"
    /\ \E self \in AllCards, other \in AllCards \cup {NotACard} :
          arg = [self |-> self, other |-> other]
    /\ ret = Compared(FALSE)

\* self == other
Card_eq ==
    /\ ret' = eq_result(arg.self, arg.other)
    /\ op' = "__eq__"
    /\ UNCHANGED <<_cards, _draw_index, arg, ndraws>>

\* self < other
Card_lt ==
    /\ ret' = lt_result(arg.self, arg.other)
    /\ op' = "__lt__"
    /\ UNCHANGED <<_cards, _draw_index, arg, ndraws>>

\* self > other
Card_gt ==
    /\ ret' = gt_result(arg.self, arg.other)
    /\ op' = "__gt__"
    /\ UNCHANGED <<_cards, _draw_index, arg, ndraws>>

NextCompare == Card_eq \/ Card_lt \/ Card_gt

\* Comparisons of any two of the 52 cards.
SpecCompare == InitCompare /\ [][NextCompare]_vars

(* ------------------------------ cards_stats --------------------------- *)

\* sorted(seq): a stable ascending sort in which elements are compared
\* with < only. Insert puts x before the first element that x is less than,
\* looking from the end, so equal elements keep their order.
RECURSIVE Insert(_, _)
Insert(sorted, x) ==
    IF sorted = <<>> THEN <<x>>
    ELSE IF __lt__(x, sorted[Len(sorted)])
    THEN Append(Insert(SubSeq(sorted, 1, Len(sorted) - 1), x), sorted[Len(sorted)])
    ELSE Append(sorted, x)

RECURSIVE SortFrom(_, _, _)
SortFrom(seq, i, sorted) ==
    IF i > Len(seq) THEN sorted
    ELSE SortFrom(seq, i + 1, Insert(sorted, seq[i]))

builtin_sorted(seq) == SortFrom(seq, 1, <<>>)

\* The keyword names main() passes to cards_stats: the three that
\* cards_stats knows and one that it does not.
StatsKeys == {"max", "min", "len", "average"}

\* A keyword value: an integer, or a value that is no integer.
IntValue(v) == [isint |-> TRUE, v |-> v]

NotAnInt == [isint |-> FALSE, v |-> 0]

StatsValues == {IntValue(v) : v \in 0 .. MaxCount} \cup {NotAnInt}

\* kwargs: keyword arguments in the order given, no name given twice.
StatsKwargs ==
    {kw \in UNION {[1 .. n -> [key : StatsKeys, value : StatsValues]] : n \in 0 .. MaxKwargs} :
        \A i, j \in 1 .. Len(kw) : i # j => kw[i].key # kw[j].key}

\* The cards main() passes to cards_stats.
StatsCards ==
    {[rank |-> 14, suit |-> 4], [rank |-> 2, suit |-> 3], [rank |-> 14, suit |-> 2],
     [rank |-> 13, suit |-> 1], [rank |-> 3, suit |-> 4], [rank |-> 9, suit |-> 3]}

StatsTuples == UNION {[1 .. n -> StatsCards] : n \in 0 .. MaxStatsCards}

\* An entry of the results dictionary: a list of cards or a number.
ListEntry(list) == [list |-> list, int |-> 0]

IntEntry(n) == [list |-> <<>>, int |-> n]

\* results[key] = entry
SetItem(results, key, entry) ==
    [k \in DOMAIN results \cup {key} |-> IF k = key THEN entry ELSE results[k]]

\* The outcome of cards_stats, or of its loop so far: the exception raised,
\* the results dictionary and the names warned about.
StatsOutcome(raised, results, warned) ==
    [raised |-> raised, results |-> results, warned |-> warned]

\* The empty dictionary.
EmptyDict == [k \in {} |-> ListEntry(<<>>)]

\* One pass of the loop as it would be if "max" took its cards from the
\* front of the sorted list.
stats_step_max_from_front(out, key, value, given, sorted_cards) ==
    IF ~value.isint \/ value.v <= 0
    THEN StatsOutcome("ValueError", out.results, out.warned)
    ELSE LET n == IF value.v > Len(sorted_cards) THEN Len(sorted_cards) ELSE value.v IN
         IF key = "max"
         THEN StatsOutcome("none",
                  SetItem(out.results, "max", ListEntry(SubSeq(sorted_cards, 1, n))),
                  out.warned)
         ELSE IF key = "min"
         THEN StatsOutcome("none",
                  SetItem(out.results, "min", ListEntry(SubSeq(sorted_cards, 1, n))),
                  out.warned)
         ELSE IF key = "len"
         THEN StatsOutcome("none",
                  SetItem(out.results, "len", IntEntry(Len(given))), out.warned)
         ELSE StatsOutcome("none", out.results, out.warned \cup {key})

\* One pass of the loop as it would be if a name that is not known were
\* refused.
stats_step_unknown_raises(out, key, value, given, sorted_cards) ==
    IF ~value.isint \/ value.v <= 0
    THEN StatsOutcome("ValueError", out.results, out.warned)
    ELSE LET n == IF value.v > Len(sorted_cards) THEN Len(sorted_cards) ELSE value.v IN
         IF key = "max"
         THEN StatsOutcome("none",
                  SetItem(out.results, "max",
                      ListEntry(SubSeq(sorted_cards, Len(sorted_cards) - n + 1,
                                       Len(sorted_cards)))),
                  out.warned)
         ELSE IF key = "min"
         THEN StatsOutcome("none",
                  SetItem(out.results, "min", ListEntry(SubSeq(sorted_cards, 1, n))),
                  out.warned)
         ELSE IF key = "len"
         THEN StatsOutcome("none",
                  SetItem(out.results, "len", IntEntry(Len(given))), out.warned)
         ELSE StatsOutcome("ValueError", out.results, out.warned)

\* One pass of the loop over kwargs.items(): the value is tested first,
\* whatever the name; then "max" takes the last n cards of the sorted list,
\* "min" the first n, n being the value clamped to the number of cards,
\* "len" the number of cards given, and any other name a printed warning.
stats_step(out, key, value, given, sorted_cards) ==
    IF ~value.isint \/ value.v <= 0
    THEN StatsOutcome("ValueError", out.results, out.warned)
    ELSE LET n == IF value.v > Len(sorted_cards) THEN Len(sorted_cards) ELSE value.v IN
         IF key = "max"
         THEN StatsOutcome("none",
                  SetItem(out.results, "max",
                      ListEntry(SubSeq(sorted_cards, Len(sorted_cards) - n + 1,
                                       Len(sorted_cards)))),
                  out.warned)
         ELSE IF key = "min"
         THEN StatsOutcome("none",
                  SetItem(out.results, "min", ListEntry(SubSeq(sorted_cards, 1, n))),
                  out.warned)
         ELSE IF key = "len"
         THEN StatsOutcome("none",
                  SetItem(out.results, "len", IntEntry(Len(given))), out.warned)
         ELSE StatsOutcome("none", out.results, out.warned \cup {key})

\* The loop over kwargs.items(), left at the first raise.
RECURSIVE StatsLoop(_, _, _, _, _)
StatsLoop(out, kwargs, i, given, sorted_cards) ==
    IF i > Len(kwargs) \/ out.raised # "none" THEN out
    ELSE StatsLoop(stats_step(out, kwargs[i].key, kwargs[i].value, given, sorted_cards),
                   kwargs, i + 1, given, sorted_cards)

\* cards_stats(*cards, **kwargs)
stats_result(given, kwargs) ==
    IF given = <<>> THEN StatsOutcome("ValueError", EmptyDict, {})
    ELSE StatsLoop(StatsOutcome("none", EmptyDict, {}), kwargs, 1, given,
                   builtin_sorted(given))

\* The arguments of a call of cards_stats.
InitStats ==
    /\ NoDeck
    /\ op = "call"
    /\ \E cs \in StatsTuples, kw \in StatsKwargs : arg = [cards |-> cs, kwargs |-> kw]
    /\ ret = StatsOutcome("none", EmptyDict, {})

\* The call of cards_stats.
cards_stats ==
    /\ op = "call"
    /\ ret' = stats_result(arg.cards, arg.kwargs)
    /\ op' = "cards_stats"
    /\ UNCHANGED <<_cards, _draw_index, arg, ndraws>>

\* Calls of cards_stats.
SpecStats == InitStats /\ [][cards_stats]_vars

(* ------------------------------ properties ----------------------------- *)

\* The 1-based positions of the remaining cards of a deck.
RemainingPos(seq, idx) == (idx + 1) .. Len(seq)

\* Two positions of the remaining cards hold equal cards.
DuplicateRemaining(seq, idx) ==
    \E i, j \in RemainingPos(seq, idx) : i < j /\ seq[i] = seq[j]

\* Some remaining card equals c.
IsRemaining(seq, idx, c) == \E i \in RemainingPos(seq, idx) : seq[i] = c

\* C1: in every reachable state the remaining cards (cursor to end) hold no
\* two equal cards.
C1_NoDuplicateRemaining == ~DuplicateRemaining(_cards, _draw_index)

\* C2: add_card with a Card equal to a card that is remaining when the call
\* is made raises DeckCheatingError.
C2_AddRemainingRaises ==
    [][(op' = "add_card" /\ arg'.card \in Card
            /\ IsRemaining(_cards, _draw_index, arg'.card))
        => ret'.raised = "DeckCheatingError"]_vars

\* An add_card refused because its card is remaining.
C2_Witness ==
    /\ op = "add_card"
    /\ ret.raised = "DeckCheatingError"
    /\ ret.at = "add_card"
    /\ IsRemaining(_cards, _draw_index, arg.card)

\* C3: add_card with a Card that has no equal among the remaining cards
\* returns without error, appends the card, makes len one greater and
\* leaves the cursor where it was.
C3_AddNewSucceeds ==
    [][(op' = "add_card" /\ arg'.card \in Card
            /\ ~IsRemaining(_cards, _draw_index, arg'.card))
        => /\ ret'.raised = "none"
           /\ _cards' = Append(_cards, arg'.card)
           /\ Len(_cards') - _draw_index' = (Len(_cards) - _draw_index) + 1
           /\ _draw_index' = _draw_index]_vars

\* C4 as stated: whenever add_card raises DeckCheatingError the card has
\* been appended to the underlying sequence.
C4_AlwaysAppendedOnError ==
    [][(op' = "add_card" /\ ret'.raised = "DeckCheatingError")
        => _cards' = Append(_cards, arg'.card)]_vars

\* C4, amended: when add_card raises DeckCheatingError for a card with no
\* equal among the remaining cards, the card has been appended (the guard
\* raised after the effect); when the card equals a remaining card the
\* underlying sequence is left as it was.
C4_AppendedUnlessRemaining ==
    [][(op' = "add_card" /\ ret'.raised = "DeckCheatingError")
        => IF IsRemaining(_cards, _draw_index, arg'.card)
           THEN _cards' = _cards /\ ret'.at = "add_card"
           ELSE _cards' = Append(_cards, arg'.card) /\ ret'.at = "fair_deck"]_vars

\* An add_card refused by the guard after its card was appended.
C4_Witness ==
    /\ op = "add_card"
    /\ ret.raised = "DeckCheatingError"
    /\ ret.at = "fair_deck"
    /\ Len(_cards) > NumCards
    /\ _cards[Len(_cards)] = arg.card

\* C5: on a fresh deck on which only draw is called, after N draws
\* (N <= NumCards) len is NumCards - N and the draw returned a card; every
\* later draw returns None without raising, with the cursor still at the
\* end and len still 0.
C5_DrawCountsDown ==
    /\ ndraws <= NumCards =>
          /\ Len(_cards) - _draw_index = NumCards - ndraws
          /\ op = "draw" => ret.raised = "none" /\ ret.card \in Card
    /\ ndraws > NumCards =>
          /\ op = "draw" /\ ret.raised = "none" /\ ret.card = None
          /\ _draw_index = NumCards
          /\ Len(_cards) - _draw_index = 0

\* The second draw on an exhausted deck.
C5_Witness ==
    /\ op = "draw"
    /\ ndraws = NumCards + 2
    /\ ret.card = None

\* The number of positions of seq that hold c.
Count(seq, c) == Cardinality({i \in 1 .. Len(seq) : seq[i] = c})

\* C6: shuffle leaves the underlying sequence a permutation of what it was
\* (same cards, same multiplicities), sets the cursor to 0 so that every
\* drawn card is remaining again, and on a deck that only draws and
\* shuffles have touched len is NumCards right after it.
C6_ShuffleResets ==
    [][op' = "shuffle"
        => /\ Len(_cards') = Len(_cards)
           /\ \A c \in Card : Count(_cards', c) = Count(_cards, c)
           /\ _draw_index' = 0
           /\ \A i \in 1 .. _draw_index : IsRemaining(_cards', _draw_index', _cards[i])
           /\ Len(_cards) = NumCards => Len(_cards') - _draw_index' = NumCards]_vars

\* A shuffle after which both copies of a card that was drawn and added
\* again are remaining.
C6_Witness ==
    /\ op = "shuffle"
    /\ _draw_index = 0
    /\ Len(_cards) > NumCards
    /\ DuplicateRemaining(_cards, _draw_index)

\* C7: the cards property returns the remaining cards in their order, and
\* raises DeckCheatingError exactly when two equal cards are both among the
\* remaining cards.
C7_CardsScansRemaining ==
    op = "cards" =>
        /\ ret.raised = "DeckCheatingError" <=> DuplicateRemaining(_cards, _draw_index)
        /\ ret.raised = "none" => ret.list = SubSeq(_cards, _draw_index + 1, Len(_cards))
        /\ ret.raised \in {"none", "DeckCheatingError"}

\* C8: a freshly constructed deck, shuffled or not, has the cursor at 0 and
\* NumCards remaining cards, every (rank, suit) combination exactly once.
C8_FreshDeckComplete ==
    op = "__init__" =>
        /\ _draw_index = 0
        /\ Len(_cards) - _draw_index = NumRanks * NumSuits
        /\ \A r \in CardRank, s \in CardSuit :
              Count(_cards, [rank |-> r, suit |-> s]) = 1

\* A deck constructed with shuffle=True whose order is not the canonical one.
C8_Witness ==
    /\ op = "__init__"
    /\ arg.shuffle
    /\ _cards # CanonicalDeck

\* C9: for every integer i, deck[i] returns the card at underlying position
\* cursor + i when 0 <= i < len, a position at or after the cursor, and
\* raises IndexError when i < 0 or i >= len.
C9_GetItemBounds ==
    (op = "__getitem__" /\ arg.isint) =>
        IF 0 <= arg.index /\ arg.index < Len(_cards) - _draw_index
        THEN /\ ret.raised = "none"
             /\ ret.card = _cards[_draw_index + arg.index + 1]
             /\ _draw_index + arg.index + 1 \in RemainingPos(_cards, _draw_index)
        ELSE ret.raised = "IndexError"

\* deck[-1] refused on a deck from which cards have been drawn.
C9_Witness ==
    /\ op = "__getitem__"
    /\ arg.isint
    /\ arg.index = -1
    /\ _draw_index > 0
    /\ Len(_cards) - _draw_index > 0
    /\ ret.raised = "IndexError"

\* The ordering of cards: by rank, then by suit.
Above(a, b) == a.rank > b.rank \/ (a.rank = b.rank /\ a.suit > b.suit)

\* C10: max and min return a remaining card that no remaining card is
\* above, respectively below, in the rank-then-suit ordering, and raise
\* ValueError exactly when len is 0.
C10_MaxMinOfRemaining ==
    /\ op = "max" =>
          IF Len(_cards) - _draw_index = 0
          THEN ret.raised = "ValueError"
          ELSE /\ ret.raised = "none"
               /\ IsRemaining(_cards, _draw_index, ret.card)
               /\ \A i \in RemainingPos(_cards, _draw_index) : ~Above(_cards[i], ret.card)
    /\ op = "min" =>
          IF Len(_cards) - _draw_index = 0
          THEN ret.raised = "ValueError"
          ELSE /\ ret.raised = "none"
               /\ IsRemaining(_cards, _draw_index, ret.card)
               /\ \A i \in RemainingPos(_cards, _draw_index) : ~Above(ret.card, _cards[i])

\* max on a deck whose greatest card has been drawn and is not remaining.
C10_Witness ==
    /\ op = "max"
    /\ ret.raised = "none"
    /\ \E i \in 1 .. _draw_index :
          /\ Above(_cards[i], ret.card)
          /\ ~IsRemaining(_cards, _draw_index, _cards[i])

\* The number of TRUE among three booleans.
HowMany(p, q, r) ==
    (IF p THEN 1 ELSE 0) + (IF q THEN 1 ELSE 0) + (IF r THEN 1 ELSE 0)

\* C11: Card(r1,s1) < Card(r2,s2) iff r1 < r2, or r1 = r2 and s1 < s2; > is
\* the mirror of < (a > b iff b < a); and of a < b, a == b, a > b exactly
\* one holds.
C11_OrderByRankThenSuit ==
    arg.other \in AllCards =>
        LET a == arg.self
            b == arg.other
        IN  /\ op = "__lt__" =>
                  /\ ret.raised = "none"
                  /\ ret.bool <=> (a.rank < b.rank \/ (a.rank = b.rank /\ a.suit < b.suit))
            /\ op = "__gt__" =>
                  /\ ret.raised = "none"
                  /\ ret.bool <=> lt_result(b, a).bool
            /\ op = "__eq__" =>
                  /\ ret.raised = "none"
                  /\ ret.bool <=> (a.rank = b.rank /\ a.suit = b.suit)
            /\ HowMany(lt_result(a, b).bool, eq_result(a, b).bool,
                       gt_result(a, b).bool) = 1

\* Two cards of one rank compared with >: the suit decides.
C11_Witness ==
    /\ op = "__gt__"
    /\ arg.other \in AllCards
    /\ arg.self.rank = arg.other.rank
    /\ arg.self.suit > arg.other.suit
    /\ ret.bool

\* Every keyword value of the call is a positive integer.
CountsPositive(kwargs) ==
    \A i \in 1 .. Len(kwargs) : kwargs[i].value.isint /\ kwargs[i].value.v > 0

\* The value given with a keyword name of the call.
CountOf(kwargs, key) ==
    kwargs[CHOOSE i \in 1 .. Len(kwargs) : kwargs[i].key = key].value.v

HasKey(kwargs, key) == \E i \in 1 .. Len(kwargs) : kwargs[i].key = key

\* The lesser of two numbers.
Least(m, n) == IF m < n THEN m ELSE n

\* list is in ascending order and holds cards of given, none more often than
\* given does.
AscendingPart(list, given) ==
    /\ \A i, j \in 1 .. Len(list) : i < j => ~Above(list[i], list[j])
    /\ \A i \in 1 .. Len(list) : Count(list, list[i]) <= Count(given, list[i])

\* The cards of given that list leaves out, or holds less often.
LeftOut(list, given) ==
    {given[i] : i \in {j \in 1 .. Len(given) : Count(list, given[j]) < Count(given, given[j])}}

\* C12: for a non-empty collection and positive counts, "max" with N gives
\* the min(N, size) greatest cards in ascending order, "min" with N the
\* min(N, size) least cards in ascending order, and "len" the number of
\* cards given, duplicates counted.
C12_StatsTopBottomCount ==
    (op = "cards_stats" /\ arg.cards # <<>> /\ CountsPositive(arg.kwargs)) =>
        /\ HasKey(arg.kwargs, "max") =>
              LET top == ret.results["max"].list IN
              /\ Len(top) = Least(CountOf(arg.kwargs, "max"), Len(arg.cards))
              /\ AscendingPart(top, arg.cards)
              /\ \A c \in LeftOut(top, arg.cards) :
                    \A i \in 1 .. Len(top) : ~Above(c, top[i])
        /\ HasKey(arg.kwargs, "min") =>
              LET bottom == ret.results["min"].list IN
              /\ Len(bottom) = Least(CountOf(arg.kwargs, "min"), Len(arg.cards))
              /\ AscendingPart(bottom, arg.cards)
              /\ \A c \in LeftOut(bottom, arg.cards) :
                    \A i \in 1 .. Len(bottom) : ~Above(bottom[i], c)
        /\ HasKey(arg.kwargs, "len") => ret.results["len"].int = Len(arg.cards)

\* max=1 over the Ace of Diamonds and the Ace of Spades, given greatest
\* first: the Ace of Spades alone.
C12_Witness ==
    /\ op = "cards_stats"
    /\ arg.cards = <<[rank |-> 14, suit |-> 4], [rank |-> 14, suit |-> 2]>>
    /\ arg.kwargs = <<[key |-> "max", value |-> IntValue(1)]>>
    /\ ret.results["max"].list = <<[rank |-> 14, suit |-> 4]>>

\* C13 as stated: for a non-empty collection, whatever comes with a keyword
\* name other than "max", "min" and "len", the call does not fail when the
\* counts of the known names are positive integers, the name gets no entry
\* and the known names are answered.
C13_UnknownKeyNeverFails ==
    (/\ op = "cards_stats"
     /\ arg.cards # <<>>
     /\ \A i \in 1 .. Len(arg.kwargs) :
           arg.kwargs[i].key \in {"max", "min", "len"} =>
               arg.kwargs[i].value.isint /\ arg.kwargs[i].value.v > 0) =>
        /\ ret.raised = "none"
        /\ \A i \in 1 .. Len(arg.kwargs) :
              (arg.kwargs[i].key \in {"max", "min", "len"})
                  <=> (arg.kwargs[i].key \in DOMAIN ret.results)

\* C13, amended: for a non-empty collection and positive counts, a keyword name other
\* than "max", "min" and "len" does not make the call fail and gets no entry
\* in the result, and the known names of the same call are answered.
C13_UnknownKeyIgnored ==
    (op = "cards_stats" /\ arg.cards # <<>> /\ CountsPositive(arg.kwargs)) =>
        /\ ret.raised = "none"
        /\ \A i \in 1 .. Len(arg.kwargs) :
              LET key == arg.kwargs[i].key IN
              IF key \in {"max", "min", "len"}
              THEN key \in DOMAIN ret.results
              ELSE key \notin DOMAIN ret.results /\ key \in ret.warned

\* A call with a name that is not known before a known one.
C13_Witness ==
    /\ op = "cards_stats"
    /\ ret.raised = "none"
    /\ Len(arg.kwargs) = 2
    /\ arg.kwargs[1].key = "average"
    /\ arg.kwargs[2].key = "min"
    /\ DOMAIN ret.results = {"min"}

\* C14: an add_card that raises DeckCheatingError leaves len as it was.
C14_FailedAddKeepsLength ==
    [][(op' = "add_card" /\ ret'.raised = "DeckCheatingError")
        => Len(_cards') - _draw_index' = Len(_cards) - _draw_index]_vars

\* C15: until the next shuffle, each draw that finds a card returns the card
\* at the cursor and moves the cursor one position on, and no other call
\* moves the cursor or changes the cards at the positions the sequence
\* has; so the card just drawn sits right before the cursor with every
\* earlier position drawn, and a card add_card appended is drawn after all
\* the cards that were in the sequence.
C15_DrawInPositionOrder ==
    [][/\ op' = "draw" =>
            IF _draw_index < Len(_cards)
            THEN /\ ret'.card = _cards[_draw_index + 1]
                 /\ _draw_index' = _draw_index + 1
                 /\ ret'.card = _cards'[_draw_index']
            ELSE ret'.card = None /\ _draw_index' = _draw_index
       /\ op' # "shuffle" =>
            /\ Len(_cards') >= Len(_cards)
            /\ SubSeq(_cards', 1, Len(_cards)) = _cards
       /\ op' \notin {"shuffle", "draw"} => _draw_index' = _draw_index]_vars

\* The card add_card appended is drawn, last of all.
C15_Witness ==
    /\ op = "draw"
    /\ Len(_cards) > NumCards
    /\ _draw_index = Len(_cards)
    /\ ret.card = _cards[Len(_cards)]

\* C16: draw changes the cursor only, by one or, on an exhausted deck, not
\* at all; add_card, raising or not, leaves the cursor and the cards already
\* in the sequence as they were; len, indexing, iteration, max, min and the
\* cards property change neither the cursor nor the sequence.
C16_FrameConditions ==
    [][/\ op' = "draw" =>
            /\ _cards' = _cards
            /\ _draw_index' = (IF _draw_index >= Len(_cards)
                                THEN _draw_index ELSE _draw_index + 1)
       /\ op' = "add_card" =>
            /\ _draw_index' = _draw_index
            /\ _cards' \in {_cards, Append(_cards, arg'.card)}
       /\ op' \in {"__len__", "__getitem__", "__iter__", "max", "min", "cards"} =>
            /\ _cards' = _cards
            /\ _draw_index' = _draw_index]_vars

\* An add_card that raised after cards had been drawn: the cursor has not
\* moved back and the card is at the end.
C16_Witness ==
    /\ op = "add_card"
    /\ ret.raised = "DeckCheatingError"
    /\ _draw_index > 1
    /\ Len(_cards) = NumCards + 1
    /\ _cards[Len(_cards)] = arg.card

\* C17: the underlying sequence always holds every (rank, suit) combination,
\* and add_card with a Card always raises DeckCheatingError: before the
\* append when the card is remaining, and from the guard after the append
\* when it is not, the card then being equal to a drawn one.
C17_AddAlwaysRaises ==
    /\ [](\A c \in Card : \E i \in 1 .. Len(_cards) : _cards[i] = c)
    /\ [][(op' = "add_card" /\ arg'.card \in Card) =>
            /\ ret'.raised = "DeckCheatingError"
            /\ IF IsRemaining(_cards, _draw_index, arg'.card)
               THEN ret'.at = "add_card" /\ _cards' = _cards
               ELSE /\ ret'.at = "fair_deck"
                    /\ _cards' = Append(_cards, arg'.card)
                    /\ \E i \in 1 .. _draw_index : _cards[i] = arg'.card]_vars

\* An add_card of a card equal to a drawn one, refused by the guard.
C17_Witness ==
    /\ op = "add_card"
    /\ ret.raised = "DeckCheatingError"
    /\ ret.at = "fair_deck"
    /\ \E i \in 1 .. _draw_index : _cards[i] = arg.card

\* Two positions of the underlying sequence hold equal cards.
DuplicateAnywhere(seq) == \E i, j \in 1 .. Len(seq) : i < j /\ seq[i] = seq[j]

\* C18: once the underlying sequence holds two equal cards it does so for
\* ever; from then on the cards property always raises DeckCheatingError,
\* while draw and len return, indexing inside the remaining cards returns,
\* and max and min return whenever a card remains.
C18_DuplicatesStay ==
    /\ [][DuplicateAnywhere(_cards) => DuplicateAnywhere(_cards')]_vars
    /\ [](DuplicateAnywhere(_cards) =>
            /\ op = "cards" => ret.raised = "DeckCheatingError"
            /\ op \in {"draw", "__len__"} => ret.raised = "none"
            /\ (op = "__getitem__" /\ arg.isint /\ 0 <= arg.index
                    /\ arg.index < Len(_cards) - _draw_index) => ret.raised = "none"
            /\ (op \in {"max", "min"} /\ _draw_index < Len(_cards)) => ret.raised = "none")

\* The cards property refused after a shuffle of a sequence that holds a
\* card twice.
C18_Witness ==
    /\ op = "cards"
    /\ ret.raised = "DeckCheatingError"
    /\ _draw_index = 0
    /\ Len(_cards) > NumCards

\* C19: the cursor is never below 0 nor past the end of the underlying
\* sequence, so len is never negative; the cards property, when it returns,
\* and iteration give len cards; the sequence never gets shorter.
C19_CursorWithinSequence ==
    /\ [](/\ 0 <= _draw_index
          /\ _draw_index <= Len(_cards)
          /\ op = "__len__" => ret.int >= 0 /\ ret.int = Len(_cards) - _draw_index
          /\ (op = "cards" /\ ret.raised = "none") => Len(ret.list) = Len(_cards) - _draw_index
          /\ op = "__iter__" => Len(ret.list) = Len(_cards) - _draw_index)
    /\ [][Len(_cards') >= Len(_cards)]_vars

\* len of a deck on which draw was called after the last card had gone.
C19_Witness ==
    /\ op = "__len__"
    /\ ret.int = 0
    /\ ndraws > _draw_index

====
